---- MODULE Spec2Model ----
(***************************************************************************)
(* State-machine model of the scheduling backend in src/app.py: the        *)
(* API-key guard, the /get-availability handler with its 15-minute grid    *)
(* scan, the /book-appointment handler with its three collaborator calls,  *)
(* and the /log-call handler.                                              *)
(*                                                                         *)
(* Time is an integer number of minutes since a Monday 00:00 UTC.          *)
(***************************************************************************)
EXTENDS Integers, Sequences, FiniteSets, TLC

VARIABLES config, calendar, meetings, call_history, exchange, pc, booking, served

vars == <<config, calendar, meetings, call_history, exchange, pc, booking, served>>

(***************************************************************************)
(* Config (src/app.py:24-37)                                               *)
(***************************************************************************)
BUSINESS_HOURS_START == 8
BUSINESS_HOURS_END == 16
APPOINTMENT_DURATION_MINUTES == 60
SEARCH_WINDOW_DAYS == 14
SUGGESTION_COUNT == 5
\* timedelta(minutes=15) added to now_utc before the scan starts
SEARCH_LEAD_MINUTES == 15
\* timedelta(minutes=15) added to check_time_utc on every iteration
SCAN_STEP_MINUTES == 15
\* Africa/Johannesburg is UTC+02:00 all year (no daylight saving)
TIMEZONE_OFFSET_MINUTES == 120

MinutesPerHour == 6 * 10
MinutesPerDay == 24 * MinutesPerHour

(***************************************************************************)
(* datetime helpers                                                        *)
(***************************************************************************)
\* dt.astimezone(Config.TIMEZONE): the local wall-clock minute of a UTC instant
AsTimezoneSAST(t_utc) == t_utc + TIMEZONE_OFFSET_MINUTES

\* dt.astimezone(ZoneInfo("UTC")) of a local wall-clock minute
AsTimezoneUTC(t_sast) == t_sast - TIMEZONE_OFFSET_MINUTES

\* datetime.weekday(): 0 = Monday ... 6 = Sunday
Weekday(t_local) == (t_local \div MinutesPerDay) % 7

\* datetime.hour
Hour(t_local) == (t_local % MinutesPerDay) \div MinutesPerHour

\* the business-hours test with the closing hour let in
InBusinessHoursInclusiveEnd(t_local) ==
    /\ 0 <= Weekday(t_local)
    /\ Weekday(t_local) <= 4
    /\ BUSINESS_HOURS_START <= Hour(t_local)
    /\ Hour(t_local) <= BUSINESS_HOURS_END

\* 0 <= dt.weekday() <= 4 and BUSINESS_HOURS_START <= dt.hour < BUSINESS_HOURS_END
InBusinessHours(t_local) ==
    /\ 0 <= Weekday(t_local)
    /\ Weekday(t_local) <= 4
    /\ BUSINESS_HOURS_START <= Hour(t_local)
    /\ Hour(t_local) < BUSINESS_HOURS_END

\* the overlap test with its first comparison made non-strict
OverlapsInclusive(a_start, a_end, b_start, b_end) == a_start <= b_end /\ a_end > b_start

\* check_time_utc < event_end and potential_end_time_utc > event_start
Overlaps(a_start, a_end, b_start, b_end) == a_start < b_end /\ a_end > b_start

(***************************************************************************)
(* GoogleCalendarService.get_events: events().list(timeMin, timeMax)       *)
(* returns the events that end after timeMin and start before timeMax.     *)
(***************************************************************************)
get_events(cal, time_min, time_max) ==
    {e \in cal : e.end > time_min /\ e.start < time_max}

(***************************************************************************)
(* The while loop of get_availability (src/app.py:226-242).                *)
(***************************************************************************)
\* a test that only asks whether the slot starts inside an event
IsFreeStartOnly(check_time_utc, all_busy_slots) ==
    \A event \in all_busy_slots :
        ~(event.start <= check_time_utc /\ check_time_utc < event.end)

IsFree(check_time_utc, all_busy_slots) ==
    \A event \in all_busy_slots :
        ~Overlaps(check_time_utc, check_time_utc + APPOINTMENT_DURATION_MINUTES,
                  event.start, event.end)

\* One stretch of the loop: the same condition and body as the while loop, run
\* while the cursor is before stop (stop <= end_of_search_window).  The loop
\* state is the pair of check_time_utc and next_available_slots.
RECURSIVE ScanLoop(_, _, _)
ScanLoop(loop, stop, all_busy_slots) ==
    IF Len(loop.next_available_slots) < SUGGESTION_COUNT /\ loop.check_time_utc < stop
    THEN ScanLoop(
            [check_time_utc |-> loop.check_time_utc + SCAN_STEP_MINUTES,
             next_available_slots |->
                IF InBusinessHours(AsTimezoneSAST(loop.check_time_utc))
                   /\ IsFree(loop.check_time_utc, all_busy_slots)
                THEN Append(loop.next_available_slots, loop.check_time_utc)
                ELSE loop.next_available_slots],
            stop, all_busy_slots)
    ELSE loop

Min(a, b) == IF a < b THEN a ELSE b

\* The whole while loop, evaluated one day of cursor positions at a time (this
\* only bounds the depth of the evaluation: every stretch continues from the
\* loop state the previous one ended in).
RECURSIVE ScanWindow(_, _, _)
ScanWindow(loop, end_of_search_window, all_busy_slots) ==
    IF Len(loop.next_available_slots) < SUGGESTION_COUNT
       /\ loop.check_time_utc < end_of_search_window
    THEN ScanWindow(
            ScanLoop(loop, Min(loop.check_time_utc + MinutesPerDay, end_of_search_window),
                     all_busy_slots),
            end_of_search_window, all_busy_slots)
    ELSE loop

\* the scan started at now_utc, without the 15-minute lead
FindNextSlotsNoLead(now_utc, all_busy_slots) ==
    ScanWindow([check_time_utc |-> now_utc, next_available_slots |-> <<>>],
               now_utc + SEARCH_WINDOW_DAYS * MinutesPerDay,
               all_busy_slots).next_available_slots

\* search_start_time, end_of_search_window and the loop (src/app.py:217-242)
FindNextSlots(now_utc, all_busy_slots) ==
    ScanWindow([check_time_utc |-> now_utc + SEARCH_LEAD_MINUTES,
                next_available_slots |-> <<>>],
               now_utc + SEARCH_WINDOW_DAYS * MinutesPerDay,
               all_busy_slots).next_available_slots

(***************************************************************************)
(* require_api_key (src/app.py:165-179).  A header value is a string; an   *)
(* absent X-API-Key is Absent.  The Authorization header is held as the    *)
(* list auth_header.split(' ') of the header value, <<>> when the header   *)
(* is absent: the value starts with 'Bearer ' exactly when the first word  *)
(* is "Bearer" and a second word (possibly empty) follows.                 *)
(***************************************************************************)
Absent == "<absent>"

Truthy(s) == s # Absent /\ s # ""

StartsWithBearer(auth_header) == Len(auth_header) >= 2 /\ auth_header[1] = "Bearer"

ApiKeyOf(headers) ==
    IF Truthy(headers.x_api_key)
    THEN headers.x_api_key
    ELSE IF StartsWithBearer(headers.authorization)
         THEN headers.authorization[2]
         ELSE headers.x_api_key

\* the guard without its test that a key was presented
AuthorizedAnyEqual(headers, API_KEY) == ApiKeyOf(headers) = API_KEY

Authorized(headers, API_KEY) ==
    Truthy(ApiKeyOf(headers)) /\ ApiKeyOf(headers) = API_KEY

(***************************************************************************)
(* Responses                                                               *)
(***************************************************************************)
Resp(code, status) == [code |-> code, status |-> status, slots |-> <<>>, iso |-> -1]

Unauthorized == Resp(401, "Unauthorized")
InvalidInput == Resp(400, "Invalid input.")
InvalidDate == Resp(400, "Invalid date format.")
\* an exception no handler catches: Flask answers 500
Unhandled(exc) == Resp(500, exc)
InThePast == Resp(200, "unavailable: in the past")
OutsideHours == Resp(200, "unavailable: outside business hours")
NoSlotsFound == Resp(200, "unavailable: no open slots")
Available(t_utc) == [code |-> 200, status |-> "available", slots |-> <<>>, iso |-> t_utc]
SlotsFound(slots) ==
    [code |-> 200, status |-> "available_slots_found", slots |-> slots, iso |-> -1]

(***************************************************************************)
(* get_availability (src/app.py:186-254).                                  *)
(* body.kind: "invalid" (start_time is not a string), "none" (no or an     *)
(* empty start_time), "bad" (a string dateutil cannot parse), "naive" (a   *)
(* parseable wall-clock time, body.t in local minutes).                    *)
(***************************************************************************)
\* Config.TIMEZONE.localize(naive_dt): Config.TIMEZONE is a zoneinfo.ZoneInfo,
\* which has no localize method (that is pytz's API), so the attribute lookup
\* raises AttributeError whatever naive_dt is.
Localize(naive_dt) == [raised |-> "AttributeError", value |-> naive_dt]

\* lines 217-254, given the result of get_events(now_utc, end_of_search_window)
SuggestionsResponse(now_utc, all_busy_slots) ==
    LET next_available_slots == FindNextSlots(now_utc, all_busy_slots)
    IN IF next_available_slots = <<>>
       THEN NoSlotsFound
       ELSE SlotsFound(next_available_slots)

\* The handler's outcome: the response, the busy intervals the scan was given
\* and the collaborator calls made.  fetch_ok[i] says whether the i-th call of
\* get_events succeeds (it raises HttpError otherwise).
Outcome(resp, busy, calls) == [resp |-> resp, busy |-> busy, calls |-> calls]

ScanPath(cfg, cal, now_utc, fetch_ok, calls) ==
    LET end_of_search_window == now_utc + SEARCH_WINDOW_DAYS * MinutesPerDay
        n == Len(calls) + 1
    IN IF ~cfg.calendar_service
       THEN Outcome(Unhandled("NameError"), {}, calls)
       ELSE IF ~fetch_ok[n]
       THEN Outcome(Unhandled("HttpError"), {}, Append(calls, "get_events"))
       ELSE LET all_busy_slots == get_events(cal, now_utc, end_of_search_window)
            IN Outcome(SuggestionsResponse(now_utc, all_busy_slots),
                       all_busy_slots, Append(calls, "get_events"))

\* lines 203-215, reached once requested_start_sast exists
SpecificSlot(cfg, cal, requested_start_utc, now_utc, fetch_ok) ==
    IF requested_start_utc < now_utc
    THEN Outcome(InThePast, {}, <<>>)
    ELSE IF ~InBusinessHours(AsTimezoneSAST(requested_start_utc))
    THEN Outcome(OutsideHours, {}, <<>>)
    ELSE IF ~cfg.calendar_service
    THEN Outcome(Unhandled("NameError"), {}, <<>>)
    ELSE IF ~fetch_ok[1]
    THEN Outcome(Unhandled("HttpError"), {}, <<"get_events">>)
    ELSE LET events == get_events(cal, requested_start_utc,
                                  requested_start_utc + APPOINTMENT_DURATION_MINUTES)
         IN IF events = {}
            THEN Outcome(Available(requested_start_utc), {}, <<"get_events">>)
            ELSE ScanPath(cfg, cal, now_utc, fetch_ok, <<"get_events">>)

get_availability(cfg, cal, body, now_utc, fetch_ok) ==
    IF body.kind = "invalid"
    THEN Outcome(InvalidInput, {}, <<>>)
    ELSE IF body.kind = "none"
    THEN ScanPath(cfg, cal, now_utc, fetch_ok, <<>>)
    ELSE IF body.kind = "bad"
    THEN Outcome(InvalidDate, {}, <<>>)
    ELSE LET requested_start_sast == Localize(body.t)
         IN IF requested_start_sast.raised # "no"
            THEN Outcome(Unhandled(requested_start_sast.raised), {}, <<>>)
            ELSE SpecificSlot(cfg, cal, AsTimezoneUTC(requested_start_sast.value),
                              now_utc, fetch_ok)

(***************************************************************************)
(* Startup (src/app.py:154-162): API_KEY may be unset (Absent) or empty;   *)
(* calendar_service and supabase_service are bound only if their           *)
(* constructors did not raise, and supabase_service is built after         *)
(* calendar_service, so it is unbound whenever calendar_service is.        *)
(***************************************************************************)
Startup(api_key, google_ok, supabase_ok) ==
    [API_KEY |-> api_key,
     calendar_service |-> google_ok,
     supabase_service |-> google_ok /\ supabase_ok]

(***************************************************************************)
(* Bounds and input sets                                                   *)
(***************************************************************************)
\* largest index of the clock values tried
MaxNowIdx == 3
\* largest number of events on the calendar at the start
MaxEvents == 2
\* largest number of requests to the endpoints that write
MaxRequests == 2

Workers == {"w1", "w2"}

Monday == 0 * MinutesPerDay
Friday == 4 * MinutesPerDay
Week == 7 * MinutesPerDay
\* the UTC instant of a local wall-clock time
Local(day, hh, mm) == AsTimezoneUTC(day + hh * MinutesPerHour + mm)

\* Mon 09:00, Fri 14:07, Tue 19:14 of the next week, ... local time
NowAt(i) == Local(Monday, 9, 0) + i * (Friday + 5 * MinutesPerHour + 7)
Nows == {NowAt(i) : i \in 0..MaxNowIdx}

\* a timed calendar event: its id, start.dateTime and end.dateTime as instants
Event(id, start, end) == [id |-> id, start |-> start, end |-> end]

\* Events the calendar may hold at the start.
EventPool ==
    { Event(1, Local(Monday, 10, 0), Local(Monday, 11, 0)),
      \* busy from before the first clock value until past every window
      Event(2, 0, 6 * Week),
      \* busy until Mon 08:15 two weeks on: three grid instants are left
      \* in the window that starts Mon 09:00
      Event(3, 0, Local(Monday + 2 * Week, 8, 15)),
      \* starts at the very end of that window
      Event(4, Local(Monday + 2 * Week, 9, 0), Local(Monday + 2 * Week, 10, 0)),
      \* Friday afternoon up to 15:10
      Event(5, Local(Friday, 14, 0), Local(Friday, 15, 10)) }

Calendars == {c \in SUBSET EventPool : Cardinality(c) <= MaxEvents}

ValidHeaders == [x_api_key |-> "k", authorization |-> <<>>]

Headers(x_api_key, authorization) ==
    [x_api_key |-> x_api_key, authorization |-> authorization]

\* X-API-Key absent, empty, right or wrong, with and without an Authorization
\* header of each shape
HeaderSet ==
    { Headers("k", <<>>),
      Headers(Absent, <<"Bearer", "k">>),
      Headers("", <<"Bearer", "k">>),
      Headers("bad", <<"Bearer", "k">>),
      Headers(Absent, <<>>),
      Headers("", <<>>),
      Headers(Absent, <<"Basic", "k">>),
      Headers(Absent, <<"Bearer", "">>),
      Headers(Absent, <<"Bearer", "bad">>) }

Body(kind, t) == [kind |-> kind, t |-> t]

\* requested wall-clock times: Mon 08:00, Mon 10:00, Mon 15:30, Sat 10:00
RequestedTimes ==
    { Monday + 8 * MinutesPerHour, Monday + 10 * MinutesPerHour,
      Monday + 15 * MinutesPerHour + 30,
      5 * MinutesPerDay + 10 * MinutesPerHour }

\* kind "none" stands for a missing and for an empty start_time: both are falsy
AvailabilityBodies ==
    {Body(k, -1) : k \in {"invalid", "none", "bad"}}
    \cup {Body("naive", t) : t \in RequestedTimes}

\* whether the first and the second call of get_events succeed
FetchOutcomes == {<<TRUE, TRUE>>, <<TRUE, FALSE>>, <<FALSE, FALSE>>}

\* /book-appointment bodies: start instants half an hour apart, so that the
\* 60-minute events of two bookings overlap
BookingBodies ==
    {Body(k, -1) : k \in {"invalid", "bad"}}
    \cup {Body("ok", t) : t \in {Local(Monday, 10, 0), Local(Monday, 10, 30)}}

NoExchange ==
    [endpoint |-> "none", headers |-> ValidHeaders, body |-> Body("none", -1),
     now |-> -1, ran |-> FALSE, busy |-> {}, calls |-> <<>>, resp |-> Resp(0, "none")]

NoBooking ==
    [headers |-> ValidHeaders, body |-> Body("none", -1), ran |-> FALSE,
     event_id |-> -1, calls |-> <<>>, failed |-> {}, resp |-> Resp(0, "none")]

(***************************************************************************)
(* Actions                                                                 *)
(***************************************************************************)
\* POST /get-availability (src/app.py:186-254); now_utc is datetime.now()
GetAvailability(headers, body, now_utc, fetch_ok) ==
    /\ exchange' =
         IF ~Authorized(headers, config.API_KEY)
         THEN [NoExchange EXCEPT !.endpoint = "/get-availability",
                                 !.headers = headers, !.resp = Unauthorized]
         ELSE LET out == get_availability(config, calendar, body, now_utc, fetch_ok)
              IN [endpoint |-> "/get-availability", headers |-> headers, body |-> body,
                  now |-> now_utc, ran |-> TRUE, busy |-> out.busy, calls |-> out.calls,
                  resp |-> out.resp]
    /\ UNCHANGED <<config, calendar, meetings, call_history, pc, booking, served>>

\* SupabaseService.log_call (src/app.py:142-148): an insert that raises is
\* logged and swallowed
log_call(table, call_data, insert_ok) ==
    IF insert_ok THEN Append(table, call_data) ELSE table

\* SupabaseService.save_meeting (src/app.py:134-140)
save_meeting(table, meeting_data, insert_ok) ==
    IF insert_ok THEN Append(table, meeting_data) ELSE table

\* POST /log-call (src/app.py:320-345)
LogCall(headers, body, insert_ok) ==
    /\ served < MaxRequests
    /\ served' = served + 1
    /\ LET base == [NoExchange EXCEPT !.endpoint = "/log-call", !.headers = headers,
                                       !.body = body]
       IN IF ~Authorized(headers, config.API_KEY)
          THEN /\ exchange' = [NoExchange EXCEPT !.endpoint = "/log-call",
                                                 !.headers = headers,
                                                 !.resp = Unauthorized]
               /\ UNCHANGED call_history
          ELSE IF body.kind = "invalid"
          THEN /\ exchange' = [base EXCEPT !.ran = TRUE, !.resp = InvalidInput]
               /\ UNCHANGED call_history
          ELSE IF ~config.supabase_service
          \* NameError, caught by the handler's except Exception
          THEN /\ exchange' = [base EXCEPT !.ran = TRUE,
                                           !.resp = Resp(500, "An internal error occurred")]
               /\ UNCHANGED call_history
          ELSE /\ call_history' =
                    log_call(call_history, [resulted_in_meeting |-> FALSE], insert_ok)
               /\ exchange' = [base EXCEPT !.ran = TRUE, !.calls = <<"log_call">>,
                                           !.resp = Resp(201, "Call log received.")]
    /\ UNCHANGED <<config, calendar, meetings, pc, booking>>

InternalError == Resp(500, "An internal error occurred")

\* POST /book-appointment, up to the call of create_event (src/app.py:257-280)
BookBegin(w, headers, body) ==
    /\ pc[w] \in {"idle", "done"}
    /\ served < MaxRequests
    /\ served' = served + 1
    /\ LET req == [NoBooking EXCEPT !.headers = headers, !.body = body]
       IN IF ~Authorized(headers, config.API_KEY)
          \* the body of a request that is turned away is never read
          THEN /\ booking' = [booking EXCEPT ![w] =
                                [NoBooking EXCEPT !.headers = headers,
                                                  !.resp = Unauthorized]]
               /\ pc' = [pc EXCEPT ![w] = "done"]
          ELSE IF body.kind = "invalid"
          THEN /\ booking' = [booking EXCEPT ![w] =
                                [req EXCEPT !.ran = TRUE, !.resp = InvalidInput]]
               /\ pc' = [pc EXCEPT ![w] = "done"]
          ELSE IF body.kind = "bad" \/ ~config.calendar_service
          \* parse raises ValueError, or calendar_service is unbound (NameError):
          \* both are caught by except Exception
          THEN /\ booking' = [booking EXCEPT ![w] =
                                [req EXCEPT !.ran = TRUE, !.resp = InternalError]]
               /\ pc' = [pc EXCEPT ![w] = "done"]
          ELSE /\ booking' = [booking EXCEPT ![w] = [req EXCEPT !.ran = TRUE]]
               /\ pc' = [pc EXCEPT ![w] = "create_event"]
    /\ UNCHANGED <<config, calendar, meetings, call_history, exchange>>

\* GoogleCalendarService.create_event (src/app.py:109-125): inserts the event,
\* whatever the calendar already holds, or raises HttpError
create_event(cal, id, start_time, end_time) == cal \cup {Event(id, start_time, end_time)}

\* the call of create_event repeated after an HttpError
BookCreateRetry(w, insert_ok) ==
    /\ pc[w] = "create_event"
    /\ LET b == booking[w]
           start_time_dt == b.body.t
           end_time_dt == start_time_dt + APPOINTMENT_DURATION_MINUTES
           id == Cardinality(EventPool) + Cardinality(calendar) + 1
           called == [b EXCEPT !.calls = Append(@, "create_event")]
       IN IF insert_ok
          THEN /\ calendar' = create_event(calendar, id, start_time_dt, end_time_dt)
               /\ booking' = [booking EXCEPT ![w] = [called EXCEPT !.event_id = id]]
               /\ pc' = [pc EXCEPT ![w] = "save_meeting"]
          ELSE /\ Len(b.calls) < 2
               /\ booking' = [booking EXCEPT ![w] =
                                [called EXCEPT !.failed = @ \cup {"create_event"}]]
               /\ UNCHANGED <<pc, calendar>>
    /\ UNCHANGED <<config, meetings, call_history, exchange, served>>

\* the call of create_event refused when the slot is taken
BookCreateChecked(w, insert_ok) ==
    /\ pc[w] = "create_event"
    /\ LET b == booking[w]
           start_time_dt == b.body.t
           end_time_dt == start_time_dt + APPOINTMENT_DURATION_MINUTES
           id == Cardinality(EventPool) + Cardinality(calendar) + 1
           called == [b EXCEPT !.calls = Append(@, "create_event")]
       IN IF insert_ok /\ \E e \in calendar :
                              Overlaps(start_time_dt, end_time_dt, e.start, e.end)
          THEN /\ booking' = [booking EXCEPT ![w] = [b EXCEPT !.resp = InternalError]]
               /\ pc' = [pc EXCEPT ![w] = "done"]
               /\ UNCHANGED calendar
          ELSE IF insert_ok
          THEN /\ calendar' = create_event(calendar, id, start_time_dt, end_time_dt)
               /\ booking' = [booking EXCEPT ![w] = [called EXCEPT !.event_id = id]]
               /\ pc' = [pc EXCEPT ![w] = "save_meeting"]
          ELSE /\ booking' = [booking EXCEPT ![w] =
                                [called EXCEPT !.resp = InternalError,
                                               !.failed = @ \cup {"create_event"}]]
               /\ pc' = [pc EXCEPT ![w] = "done"]
               /\ UNCHANGED calendar
    /\ UNCHANGED <<config, meetings, call_history, exchange, served>>

\* the call of create_event in book_appointment (src/app.py:280, 315-317);
\* failed collects the collaborator calls that raised
BookCreate(w, insert_ok) ==
    /\ pc[w] = "create_event"
    /\ LET b == booking[w]
           start_time_dt == b.body.t
           end_time_dt == start_time_dt + APPOINTMENT_DURATION_MINUTES
           id == Cardinality(EventPool) + Cardinality(calendar) + 1
           called == [b EXCEPT !.calls = Append(@, "create_event")]
       IN IF insert_ok
          THEN /\ calendar' = create_event(calendar, id, start_time_dt, end_time_dt)
               /\ booking' = [booking EXCEPT ![w] = [called EXCEPT !.event_id = id]]
               /\ pc' = [pc EXCEPT ![w] = "save_meeting"]
          ELSE /\ booking' = [booking EXCEPT ![w] =
                                [called EXCEPT !.resp = InternalError,
                                               !.failed = @ \cup {"create_event"}]]
               /\ pc' = [pc EXCEPT ![w] = "done"]
               /\ UNCHANGED calendar
    /\ UNCHANGED <<config, meetings, call_history, exchange, served>>

\* supabase_service.save_meeting(meeting_data) (src/app.py:283-293)
BookSave(w, insert_ok) ==
    /\ pc[w] = "save_meeting"
    /\ LET b == booking[w]
       IN IF ~config.supabase_service
          THEN /\ booking' = [booking EXCEPT ![w] = [b EXCEPT !.resp = InternalError]]
               /\ pc' = [pc EXCEPT ![w] = "done"]
               /\ UNCHANGED meetings
          ELSE /\ meetings' = save_meeting(meetings,
                                  [google_calendar_event_id |-> b.event_id], insert_ok)
               /\ booking' = [booking EXCEPT ![w] =
                     [b EXCEPT !.calls = Append(@, "save_meeting"),
                               !.failed = IF insert_ok THEN @ ELSE @ \cup {"save_meeting"}]]
               /\ pc' = [pc EXCEPT ![w] = "log_call"]
    /\ UNCHANGED <<config, calendar, call_history, exchange, served>>

\* supabase_service.log_call(call_data) and the response (src/app.py:296-313)
BookLog(w, insert_ok) ==
    /\ pc[w] = "log_call"
    /\ LET b == booking[w]
       IN /\ call_history' =
               log_call(call_history, [resulted_in_meeting |-> TRUE], insert_ok)
          /\ booking' = [booking EXCEPT ![w] =
                [b EXCEPT !.calls = Append(@, "log_call"),
                          !.failed = IF insert_ok THEN @ ELSE @ \cup {"log_call"},
                          !.resp = Resp(201, "booked")]]
          /\ pc' = [pc EXCEPT ![w] = "done"]
    /\ UNCHANGED <<config, calendar, meetings, exchange, served>>

(***************************************************************************)
(* The availability endpoint alone, over every calendar of Calendars.      *)
(***************************************************************************)
InitAvail ==
    /\ config = Startup("k", TRUE, TRUE)
    /\ calendar \in Calendars
    /\ meetings = <<>>
    /\ call_history = <<>>
    /\ exchange = NoExchange
    /\ pc = [w \in Workers |-> "idle"]
    /\ booking = [w \in Workers |-> NoBooking]
    /\ served = 0

NextAvail ==
    \E body \in AvailabilityBodies, now_utc \in Nows, fetch_ok \in FetchOutcomes :
        GetAvailability(ValidHeaders, body, now_utc, fetch_ok)

SpecAvail == InitAvail /\ [][NextAvail]_vars

(***************************************************************************)
(* The whole service: the three endpoints, two workers serving             *)
(* /book-appointment concurrently.  The requests and the collaborators'    *)
(* outcomes are drawn from the sets given.                                 *)
(***************************************************************************)
InitService(configs) ==
    /\ config \in configs
    /\ calendar = {}
    /\ meetings = <<>>
    /\ call_history = <<>>
    /\ exchange = NoExchange
    /\ pc = [w \in Workers |-> "idle"]
    /\ booking = [w \in Workers |-> NoBooking]
    /\ served = 0

NextService(headerSet, availBodies, fetchOutcomes, logBodies, bookBodies, insertOutcomes) ==
    \/ \E headers \in headerSet, body \in availBodies, fetch_ok \in fetchOutcomes :
          GetAvailability(headers, body, NowAt(0), fetch_ok)
    \/ \E headers \in headerSet, body \in logBodies, insert_ok \in insertOutcomes :
          LogCall(headers, body, insert_ok)
    \/ \E w \in Workers, headers \in headerSet, body \in bookBodies :
          BookBegin(w, headers, body)
    \/ \E w \in Workers, insert_ok \in insertOutcomes : BookCreate(w, insert_ok)
    \/ \E w \in Workers, insert_ok \in insertOutcomes : BookSave(w, insert_ok)
    \/ \E w \in Workers, insert_ok \in insertOutcomes : BookLog(w, insert_ok)

\* Every startup outcome and every collaborator outcome, for requests with and
\* without the key.
Init == InitService({Startup("k", g, s) : g \in BOOLEAN, s \in BOOLEAN})

Next ==
    NextService({ValidHeaders, Headers(Absent, <<>>)},
                {Body("none", -1), Body("naive", Monday + 10 * MinutesPerHour)},
                FetchOutcomes,
                {Body("invalid", -1), Body("ok", -1)},
                BookingBodies,
                BOOLEAN)

Spec == Init /\ [][Next]_vars

\* Every shape of the credential headers and of API_KEY, collaborators that
\* succeed.
InitAuth == InitService({Startup(k, TRUE, TRUE) : k \in {Absent, "", "k"}})

NextAuth ==
    NextService(HeaderSet,
                {Body("none", -1)},
                {<<TRUE, TRUE>>},
                {Body("ok", -1)},
                {Body("ok", Local(Monday, 10, 0))},
                {TRUE})

SpecAuth == InitAuth /\ [][NextAuth]_vars

(***************************************************************************)
(* Properties                                                              *)
(***************************************************************************)
\* the last request was a /get-availability request answered by the scan
ScanAnswered ==
    /\ exchange.endpoint = "/get-availability"
    /\ exchange.ran
    /\ exchange.body.kind = "none"
    /\ exchange.resp.code = 200

Slots == exchange.resp.slots
SlotSet == {Slots[i] : i \in 1..Len(Slots)}
MinuteOfDay(t_local) == t_local % MinutesPerDay
LocalWeekdayIsMonToFri(t_utc) ==
    ((t_utc + TIMEZONE_OFFSET_MINUTES) \div MinutesPerDay) % 7 \in 0..4

\* C1: the slot list of the scan has at most SUGGESTION_COUNT entries, its starts
\* are strictly ascending, and no slot [s, s + 60 min) overlaps a busy interval
\* the scan was given.
C1_SlotsBoundedAscendingFree ==
    ScanAnswered =>
        /\ Len(Slots) <= SUGGESTION_COUNT
        /\ \A i \in 1..(Len(Slots) - 1) : Slots[i] < Slots[i + 1]
        /\ \A i \in 1..Len(Slots) : \A busy \in exchange.busy :
              ~(Slots[i] < busy.end
                /\ Slots[i] + APPOINTMENT_DURATION_MINUTES > busy.start)

\* a full list whose first slot starts right where a busy interval ends
C1_Witness ==
    /\ ScanAnswered
    /\ Len(Slots) = SUGGESTION_COUNT
    /\ \E busy \in exchange.busy : Slots[1] = busy.end

\* C2 as stated: every slot lies on a local weekday Mon-Fri and the whole of
\* [start, start + 60 min) lies within 08:00 to 16:00 local time.
C2_WholeSlotInsideBusinessHours ==
    ScanAnswered =>
        \A i \in 1..Len(Slots) :
            LET start_local == Slots[i] + TIMEZONE_OFFSET_MINUTES
            IN /\ LocalWeekdayIsMonToFri(Slots[i])
               /\ MinuteOfDay(start_local) >= BUSINESS_HOURS_START * MinutesPerHour
               /\ MinuteOfDay(start_local) + APPOINTMENT_DURATION_MINUTES
                     <= BUSINESS_HOURS_END * MinutesPerHour

\* C2 amended: every slot starts on a local weekday Mon-Fri at a local time in
\* [08:00, 16:00); it ends before 17:00 local time of that day.
C2_SlotStartsInsideBusinessHours ==
    ScanAnswered =>
        \A i \in 1..Len(Slots) :
            LET start_local == Slots[i] + TIMEZONE_OFFSET_MINUTES
            IN /\ LocalWeekdayIsMonToFri(Slots[i])
               /\ MinuteOfDay(start_local) >= BUSINESS_HOURS_START * MinutesPerHour
               /\ MinuteOfDay(start_local) < BUSINESS_HOURS_END * MinutesPerHour
               /\ MinuteOfDay(start_local) + APPOINTMENT_DURATION_MINUTES
                     < (BUSINESS_HOURS_END + 1) * MinutesPerHour

\* a returned slot that starts after 15:00 local time and so ends after 16:00
C2_Witness ==
    /\ ScanAnswered
    /\ \E i \in 1..Len(Slots) :
          MinuteOfDay(Slots[i] + TIMEZONE_OFFSET_MINUTES)
              > (BUSINESS_HOURS_END - 1) * MinutesPerHour

\* the grid {now + 15 min + k * 15 min} before now + 14 days
Grid(now_utc) ==
    {t \in {now_utc + 15 + k * 15 : k \in 0..((SEARCH_WINDOW_DAYS * MinutesPerDay) \div 15)} :
        t < now_utc + SEARCH_WINDOW_DAYS * MinutesPerDay}

Qualifies(t_utc, busy_intervals) ==
    /\ LocalWeekdayIsMonToFri(t_utc)
    /\ MinuteOfDay(t_utc + TIMEZONE_OFFSET_MINUTES) \div MinutesPerHour >= BUSINESS_HOURS_START
    /\ MinuteOfDay(t_utc + TIMEZONE_OFFSET_MINUTES) \div MinutesPerHour < BUSINESS_HOURS_END
    /\ \A busy \in busy_intervals :
          ~(t_utc < busy.end /\ t_utc + APPOINTMENT_DURATION_MINUTES > busy.start)

QualifyingInstants(now_utc, busy_intervals) ==
    {t \in Grid(now_utc) : Qualifies(t, busy_intervals)}

\* qualifying is the set of qualifying grid instants: slots lists, in ascending
\* order, its first SUGGESTION_COUNT members, or all of them if there are fewer
IsFirstQualifying(slots, qualifying) ==
    LET returned == {slots[i] : i \in 1..Len(slots)}
    IN /\ \A i \in 1..(Len(slots) - 1) : slots[i] < slots[i + 1]
       /\ returned \subseteq qualifying
       /\ \A q \in qualifying \ returned : \A s \in returned : s < q
       /\ Len(slots) = Min(SUGGESTION_COUNT, Cardinality(qualifying))

\* C3: the scan returns exactly the first 5 (or all, if fewer) qualifying instants
\* of the grid, none before now + 15 min or at or after now + 14 days, and it
\* answers "no open slots" exactly when no grid instant qualifies.
C3_FirstQualifyingGridInstants ==
    ScanAnswered =>
        LET qualifying == QualifyingInstants(exchange.now, exchange.busy)
        IN /\ IsFirstQualifying(Slots, qualifying)
           /\ \A s \in SlotSet :
                 /\ s >= exchange.now + 15
                 /\ s < exchange.now + SEARCH_WINDOW_DAYS * MinutesPerDay
           /\ exchange.resp.status \in {"unavailable: no open slots", "available_slots_found"}
           /\ (exchange.resp.status = "unavailable: no open slots") <=> (qualifying = {})

\* fewer than SUGGESTION_COUNT instants qualify and all of them are returned
C3_Witness ==
    /\ ScanAnswered
    /\ Len(Slots) \in 1..(SUGGESTION_COUNT - 1)
    /\ Cardinality(QualifyingInstants(exchange.now, exchange.busy)) = Len(Slots)

\* the last request asked /get-availability for a parseable wall-clock time
SpecificSlotAsked ==
    /\ exchange.endpoint = "/get-availability"
    /\ exchange.ran
    /\ exchange.body.kind = "naive"

RequestedInstant == exchange.body.t - TIMEZONE_OFFSET_MINUTES

RequestedPastOrOutOfHours ==
    \/ RequestedInstant < exchange.now
    \/ ~LocalWeekdayIsMonToFri(RequestedInstant)
    \/ MinuteOfDay(exchange.body.t) \div MinutesPerHour < BUSINESS_HOURS_START
    \/ MinuteOfDay(exchange.body.t) \div MinutesPerHour >= BUSINESS_HOURS_END

\* C4: for a parseable requested instant t the verdict is "in the past" or
\* "outside business hours" exactly when t < now, or the local weekday of t is
\* not Mon-Fri, or the local hour of t is not in [8, 16).
C4_PastOrOutOfHoursVerdict ==
    SpecificSlotAsked =>
        ((exchange.resp \in {InThePast, OutsideHours}) <=> RequestedPastOrOutOfHours)

\* C5: for a requested instant t that is not in the past and inside business
\* hours the answer is "available" carrying t exactly when no busy interval
\* overlaps [t, t + 60 min), and otherwise the suggestions of the scan.
C5_AvailableOrSuggestions ==
    (SpecificSlotAsked /\ ~RequestedPastOrOutOfHours) =>
        IF \A busy \in calendar :
              ~(RequestedInstant < busy.end
                /\ RequestedInstant + APPOINTMENT_DURATION_MINUTES > busy.start)
        THEN exchange.resp.status = "available" /\ exchange.resp.iso = RequestedInstant
        ELSE /\ exchange.resp.status \in {"unavailable: no open slots",
                                         "available_slots_found"}
             /\ IsFirstQualifying(Slots,
                   QualifyingInstants(exchange.now,
                       {e \in calendar :
                           /\ e.end > exchange.now
                           /\ e.start < exchange.now + SEARCH_WINDOW_DAYS * MinutesPerDay}))

CountOf(calls, name) == Cardinality({i \in 1..Len(calls) : calls[i] = name})

\* C6: once create_event has succeeded, book_appointment answers 201 whatever
\* happens to save_meeting and log_call, and log_call_history acknowledges a
\* valid request whether or not the log write succeeds.
C6_PersistenceNeverTurnsSuccessIntoError ==
    /\ \A w \in Workers :
          (pc[w] = "done" /\ booking[w].event_id # -1) => booking[w].resp.code = 201
    /\ (exchange.endpoint = "/log-call" /\ exchange.ran /\ exchange.body.kind = "ok")
          => exchange.resp.code = 201

\* C7: create_event is called at most once per request; save_meeting and
\* log_call are called only after create_event has succeeded; when create_event
\* fails the request ends with an error and without a persistence write; when
\* get_events fails, get_availability answers neither "available" nor
\* suggestions and does not call get_events again.
C7_CalendarFailureSurfacedNotRetried ==
    /\ \A w \in Workers :
          LET b == booking[w]
          IN /\ CountOf(b.calls, "create_event") <= 1
             /\ (CountOf(b.calls, "save_meeting") + CountOf(b.calls, "log_call") > 0)
                   => /\ b.calls[1] = "create_event"
                      /\ "create_event" \notin b.failed
                      /\ \E e \in calendar : e.id = b.event_id
             /\ "create_event" \in b.failed
                   => /\ pc[w] = "done"
                      /\ b.resp.code = 500
                      /\ b.calls = <<"create_event">>
                      /\ \A i \in 1..Len(meetings) :
                            meetings[i].google_calendar_event_id # b.event_id
    /\ Len(meetings) <= Cardinality(calendar)
    /\ Cardinality({i \in 1..Len(call_history) : call_history[i].resulted_in_meeting})
          <= Cardinality(calendar)
    /\ (exchange.endpoint = "/get-availability" /\ exchange.resp.status = "HttpError")
          => /\ exchange.resp.code = 500
             /\ exchange.resp.slots = <<>>
             /\ exchange.resp.iso = -1
             /\ CountOf(exchange.calls, "get_events") = 1

\* a booking whose call of create_event raised
C7_Witness ==
    \E w \in Workers :
        /\ pc[w] = "done"
        /\ "create_event" \in booking[w].failed
        /\ booking[w].resp.code = 500

\* the event a booking asks for
EventOf(b) ==
    Event(b.event_id, b.body.t, b.body.t + APPOINTMENT_DURATION_MINUTES)

\* C8: bookings are not deduplicated or locked: a valid booking request always
\* goes on to call create_event, with no look at the calendar; unless that call
\* raises, its event is put on the calendar whatever events the calendar holds,
\* and the request then answers 201 (with the persistence client bound), also
\* when its slot overlaps another booking's.
C8_NoDeduplication ==
    \A w \in Workers :
        LET b == booking[w]
        IN (/\ pc[w] \in {"save_meeting", "log_call", "done"}
            /\ b.ran
            /\ b.body.kind = "ok"
            /\ config.calendar_service
            /\ "create_event" \notin b.failed)
              => /\ CountOf(b.calls, "create_event") = 1
                 /\ EventOf(b) \in calendar
                 /\ (pc[w] = "done" /\ config.supabase_service) => b.resp.code = 201

\* two bookings whose slots overlap were both answered 201 and both events are
\* on the calendar
C8_Witness ==
    \E w1 \in Workers, w2 \in Workers :
        /\ w1 # w2
        /\ pc[w1] = "done" /\ booking[w1].resp.code = 201
        /\ pc[w2] = "done" /\ booking[w2].resp.code = 201
        /\ {EventOf(booking[w1]), EventOf(booking[w2])} \subseteq calendar
        /\ booking[w1].event_id # booking[w2].event_id
        /\ booking[w1].body.t < booking[w2].body.t + APPOINTMENT_DURATION_MINUTES
        /\ booking[w2].body.t < booking[w1].body.t + APPOINTMENT_DURATION_MINUTES

\* the intervals of a state: the calendar's events and the slots returned
Intervals ==
    {<<e.start, e.end>> : e \in calendar}
    \cup {<<s, s + APPOINTMENT_DURATION_MINUTES>> : s \in SlotSet}

\* C9: the overlap test is symmetric, and reflexive on intervals of positive
\* duration.
C9_OverlapSymmetricReflexive ==
    \A a \in Intervals :
        /\ (a[1] < a[2]) => Overlaps(a[1], a[2], a[1], a[2])
        /\ \A b \in Intervals :
              Overlaps(a[1], a[2], b[1], b[2]) = Overlaps(b[1], b[2], a[1], a[2])

\* intervals that overlap, intervals that only touch and intervals that are apart
C9_Witness ==
    /\ \E a \in Intervals, b \in Intervals : a # b /\ Overlaps(a[1], a[2], b[1], b[2])
    /\ \E a \in Intervals, b \in Intervals : a[2] = b[1]
    /\ \E a \in Intervals, b \in Intervals : a[2] < b[1]

\* the requests the state records: the last one answered by /get-availability or
\* /log-call, and each worker's /book-appointment request
Recorded ==
    (IF exchange.endpoint = "none" THEN {} ELSE {exchange})
    \cup {booking[w] : w \in {v \in Workers : pc[v] # "idle"}}

IsBearer(authorization) == Len(authorization) >= 2 /\ authorization[1] = "Bearer"

\* the credential as C10 states it: X-API-Key, or in its absence the Bearer token
PresentedIfAbsent(h) ==
    IF h.x_api_key # Absent THEN h.x_api_key
    ELSE IF IsBearer(h.authorization) THEN h.authorization[2] ELSE ""

\* the credential as amended: X-API-Key, or when it is absent or empty the
\* Bearer token
PresentedIfAbsentOrEmpty(h) ==
    IF h.x_api_key \notin {Absent, ""} THEN h.x_api_key
    ELSE IF IsBearer(h.authorization) THEN h.authorization[2] ELSE ""

NothingWritten == calendar = {} /\ meetings = <<>> /\ call_history = <<>>

\* C10 as stated: a handler runs only for a request whose X-API-Key, or in its
\* absence the Bearer token, is non-empty and equal to API_KEY.
C10_RunsOnlyWithKeyOrBearerIfAbsent ==
    \A r \in Recorded :
        r.ran => /\ PresentedIfAbsent(r.headers) # ""
                 /\ PresentedIfAbsent(r.headers) = config.API_KEY

\* C10 amended: a handler runs exactly for a request whose X-API-Key, or when
\* that is absent or empty the Bearer token, is non-empty and equal to API_KEY;
\* every other request is answered 401 with no collaborator call, and with
\* API_KEY unset or empty nothing ever runs or is written.
C10_RunsOnlyWithKeyOrBearerIfAbsentOrEmpty ==
    /\ \A r \in Recorded :
          /\ r.ran <=> /\ PresentedIfAbsentOrEmpty(r.headers) # ""
                       /\ PresentedIfAbsentOrEmpty(r.headers) = config.API_KEY
          /\ ~r.ran => r.resp = Unauthorized /\ r.calls = <<>>
          /\ r.ran => r.resp # Unauthorized
    /\ config.API_KEY \in {Absent, ""} =>
          /\ NothingWritten
          /\ \A r \in Recorded : ~r.ran

\* a booking made with an empty X-API-Key and the key as Bearer token
C10_Witness ==
    \E w \in Workers :
        /\ booking[w].headers = Headers("", <<"Bearer", "k">>)
        /\ booking[w].resp.code = 201
        /\ EventOf(booking[w]) \in calendar

====
